---------------------------- MODULE Spec2Model ----------------------------
(***************************************************************************)
(* Model of calculate_similarity.py: the assembly similarity scorer        *)
(* (normalize_assembly_line, extract_instructions, calculate_similarity)   *)
(* and the batch driver process_all_problems with its samples.json         *)
(* sidecar update.                                                         *)
(*                                                                         *)
(* A line of text is a sequence of one-character strings.  A similarity    *)
(* value is an integer number of ten-thousandths (10000 is 1.0), which is  *)
(* what round(x, 4) leaves of a ratio; an unrounded ratio is a pair        *)
(* <<numerator, denominator>>.                                             *)
(*                                                                         *)
(* The ratios are exact fractions where Python has floats: 2.0 * M / T and *)
(* the weighted sum meet no rounding tie for texts of fewer than 32 lines. *)
(* SequenceMatcher is modelled with its autojunk heuristic, which acts on  *)
(* a second sequence of 200 elements or more.                              *)
(*                                                                         *)
(* Spec      two files, readable or not, scored in either order            *)
(* SpecSym   two texts of three different instructions                     *)
(* SpecRound two texts of labels and instructions, up to 3 and 4 lines     *)
(* SpecEdit  a text and an edited copy of it, scored against a third       *)
(* SpecBatch process_all_problems over up to MaxDirs problem directories   *)
(***************************************************************************)
EXTENDS Integers, Sequences, FiniteSets, TLC

VARIABLES
    file1,      \* the first assembly file: [st, lines]
    file2,      \* the second assembly file: [st, lines]
    edited,     \* a copy of file1's text under edit (comments, whitespace, labels)
    edits,      \* the kinds of the edits applied to `edited` so far, in order
    out,        \* the last call of calculate_similarity: [x, y, r]
    base_exists,\* whether base_dir exists
    dirs,       \* the problem directories of a batch run, sorted by name
    sidecar,    \* the samples.json file of each directory, as it is on disk
    update_json,\* process_all_problems' update_json argument
    idx,        \* position of the loop over problem_dirs
    results,    \* process_all_problems' results list
    log,        \* the lines printed by process_all_problems
    pc          \* where process_all_problems is

vars == <<file1, file2, edited, edits, out, base_exists, dirs, sidecar,
          update_json, idx, results, log, pc>>

scorerVars == <<file1, file2, edited, edits, out>>
batchVars == <<base_exists, dirs, sidecar, update_json, idx, results, log, pc>>

---------------------------------------------------------------------------
(* Characters and strings *)

Whitespace == {" ", "\t", "\n"}
Letters == {"a", "b", "c", "x", "y"}
Digits == {"0"}

Range(s) == {s[i] : i \in 1..Len(s)}

\* s[:s.index(c)] when c occurs in s, otherwise s
TruncateAt(s, c) ==
    IF c \in Range(s)
    THEN SubSeq(s, 1, (CHOOSE i \in 1..Len(s) :
                          s[i] = c /\ \A k \in 1..(i - 1) : s[k] # c) - 1)
    ELSE s

\* str.strip()
strip(s) ==
    LET keep == {i \in 1..Len(s) : s[i] \notin Whitespace}
    IN  IF keep = {} THEN <<>>
        ELSE SubSeq(s, CHOOSE i \in keep : \A k \in keep : i <= k,
                       CHOOSE i \in keep : \A k \in keep : i >= k)

\* normalized.split()[0] of a stripped, non-empty string
FirstWord(s) ==
    IF \E i \in 1..Len(s) : s[i] \in Whitespace
    THEN SubSeq(s, 1, (CHOOSE i \in 1..Len(s) :
                          s[i] \in Whitespace
                          /\ \A k \in 1..(i - 1) : s[k] \notin Whitespace) - 1)
    ELSE s

\* re.match(r'^[.a-zA-Z_][a-zA-Z0-9_.]*:\s*$', s)
LabelMatch(s) ==
    /\ Len(s) >= 2
    /\ s[1] \in Letters \cup {".", "_"}
    /\ \E k \in 2..Len(s) :
          /\ s[k] = ":"
          /\ \A i \in 2..(k - 1) : s[i] \in Letters \cup Digits \cup {"_", "."}
          /\ \A i \in (k + 1)..Len(s) : s[i] \in Whitespace

\* a mutant: only the # comments are cut
normalize_assembly_line_hashonly(line) ==
    strip(TruncateAt(line, "#"))

normalize_assembly_line(line) ==
    strip(TruncateAt(TruncateAt(line, "#"), ";"))

RECURSIVE SelectMap(_, _, _)
\* [f(x) for x in xs if keep(x)] with f and keep given as functions
SelectMap(xs, keep, f) ==
    IF xs = <<>> THEN <<>>
    ELSE LET rest == SelectMap(Tail(xs), keep, f)
         IN  IF keep[Head(xs)] THEN <<f[Head(xs)]>> \o rest ELSE rest

\* a mutant: the label lines are kept
IsInstruction_keeplabels(line) ==
    LET normalized == normalize_assembly_line(line)
    IN  /\ normalized # <<>>
        /\ normalized[1] # "."

\* lines 47-54: the line is neither empty, nor a label, nor a directive
IsInstruction(line) ==
    LET normalized == normalize_assembly_line(line)
    IN  /\ normalized # <<>>
        /\ ~LabelMatch(normalized)
        /\ normalized[1] # "."

extract_instructions(lines) ==
    LET S == Range(lines)
    IN  SelectMap(lines,
                  [l \in S |-> IsInstruction(l)],
                  [l \in S |-> FirstWord(normalize_assembly_line(l))])

\* the normalized lines of a text, empty ones dropped
normalized_lines(lines) ==
    LET S == Range(lines)
    IN  SelectMap(lines,
                  [l \in S |-> normalize_assembly_line(l) # <<>>],
                  [l \in S |-> normalize_assembly_line(l)])

---------------------------------------------------------------------------
(* difflib.SequenceMatcher(None, a, b), as imported by the scorer.  Indices  *)
(* are Python's: 0-based, [lo, hi) half open, so element i is a[i + 1].      *)

AutoJunkMin == 200

Count(s, e) == Cardinality({i \in 1..Len(s) : s[i] = e})

\* __chain_b: with autojunk, elements of a long b that occur in more than
\* 1% + 1 of its positions are dropped from the index b2j
bpopular(b) ==
    IF Len(b) >= AutoJunkMin
    THEN {e \in Range(b) : Count(b, e) > (Len(b) \div 100) + 1}
    ELSE {}

Max(S) == CHOOSE m \in S : \A k \in S : m >= k

\* j2len of find_longest_match: k[i, j] is the length of the run of equal,
\* indexed elements that ends at a[i] and b[j] inside a[alo:ahi], b[blo:bhi]
j2len(a, b, alo, ahi, blo, bhi, popular) ==
    LET k[i \in (alo - 1)..(ahi - 1), j \in (blo - 1)..(bhi - 1)] ==
            IF i < alo \/ j < blo THEN 0
            ELSE IF a[i + 1] = b[j + 1] /\ b[j + 1] \notin popular
                 THEN k[i - 1, j - 1] + 1 ELSE 0
    IN  k

\* the first run of length bestsize that the scan (i ascending, then j
\* ascending) completes, as <<besti, bestj, bestsize>>
first_longest(k, cells, bestsize, alo, blo) ==
    IF bestsize = 0 THEN <<alo, blo, 0>>
    ELSE LET first == CHOOSE c \in cells :
                         /\ k[c[1], c[2]] = bestsize
                         /\ \A d \in cells : k[d[1], d[2]] = bestsize =>
                               (c[1] < d[1] \/ (c[1] = d[1] /\ c[2] <= d[2]))
         IN  <<first[1] - bestsize + 1, first[2] - bestsize + 1, bestsize>>

best_run(k, cells, alo, blo) ==
    first_longest(k, cells, Max({0} \cup {k[c[1], c[2]] : c \in cells}), alo, blo)

\* the block is extended by equal elements before it and after it (the
\* popular elements are not indexed, but they are not junk either)
extend_back(a, b, alo, blo, x) ==
    LET back == Max({e \in 0..(x[1] - alo) :
                       /\ e <= x[2] - blo
                       /\ \A t \in 1..e : a[x[1] - t + 1] = b[x[2] - t + 1]})
    IN  <<x[1] - back, x[2] - back, x[3] + back>>

extend_forward(a, b, ahi, bhi, x) ==
    <<x[1], x[2],
      x[3] + Max({e \in 0..(ahi - x[1] - x[3]) :
                    /\ e <= bhi - x[2] - x[3]
                    /\ \A t \in 1..e : a[x[1] + x[3] + t] = b[x[2] + x[3] + t]})>>

\* find_longest_match: the longest block a[i:i+k] == b[j:j+k] inside
\* a[alo:ahi], b[blo:bhi]; of the longest ones the one that starts earliest
\* in a, and of those the one that starts earliest in b
find_longest_match(a, b, alo, ahi, blo, bhi) ==
    extend_forward(a, b, ahi, bhi,
        extend_back(a, b, alo, blo,
            best_run(j2len(a, b, alo, ahi, blo, bhi, bpopular(b)),
                     (alo..(ahi - 1)) \X (blo..(bhi - 1)), alo, blo)))

RECURSIVE matches(_, _, _, _, _, _)
RECURSIVE matches_around(_, _, _, _, _, _, _)
\* get_matching_blocks, summed: the longest block x, then the blocks of
\* what is left of it and of what is right of it
matches_around(a, b, alo, ahi, blo, bhi, x) ==
    IF x[3] = 0 THEN 0
    ELSE x[3]
         + (IF alo < x[1] /\ blo < x[2]
            THEN matches(a, b, alo, x[1], blo, x[2]) ELSE 0)
         + (IF x[1] + x[3] < ahi /\ x[2] + x[3] < bhi
            THEN matches(a, b, x[1] + x[3], ahi, x[2] + x[3], bhi) ELSE 0)

matches(a, b, alo, ahi, blo, bhi) ==
    matches_around(a, b, alo, ahi, blo, bhi,
                   find_longest_match(a, b, alo, ahi, blo, bhi))

\* a mutant: the ratio against the length of the first sequence only
ratio_first(a, b) ==
    IF Len(a) > 0
    THEN <<2 * matches(a, b, 0, Len(a), 0, Len(b)), Len(a)>>
    ELSE <<1, 1>>

\* a mutant: two empty sequences have nothing in common
ratio_emptyzero(a, b) ==
    IF Len(a) + Len(b) > 0
    THEN <<2 * matches(a, b, 0, Len(a), 0, Len(b)), Len(a) + Len(b)>>
    ELSE <<0, 1>>

\* ratio() and _calculate_ratio: 2.0 * matches / length, and 1.0 when both
\* sequences are empty; the value is the fraction <<numerator, denominator>>
ratio(a, b) ==
    IF Len(a) + Len(b) > 0
    THEN <<2 * matches(a, b, 0, Len(a), 0, Len(b)), Len(a) + Len(b)>>
    ELSE <<1, 1>>

---------------------------------------------------------------------------
(* calculate_similarity *)

Scale == 10000

\* round(n / d, 4) in ten-thousandths, halves to the even neighbour
round4(q) ==
    LET s == Scale * q[1]
        whole == s \div q[2]
        rest == s % q[2]
    IN  IF 2 * rest < q[2] THEN whole
        ELSE IF 2 * rest > q[2] THEN whole + 1
        ELSE IF whole % 2 = 0 THEN whole ELSE whole + 1

\* a mutant: the guard dropped, as for the line ratio
instruction_ratio_noguard(instructions1, instructions2) ==
    ratio(instructions1, instructions2)

\* SequenceMatcher(...).ratio() if instructions1 or instructions2 else 0.0
instruction_ratio(instructions1, instructions2) ==
    IF instructions1 # <<>> \/ instructions2 # <<>>
    THEN ratio(instructions1, instructions2)
    ELSE <<0, 1>>

\* a mutant: both weights 0.6
overall_heavy(line_similarity, instruction_similarity) ==
    round4(<<3 * line_similarity[1] * instruction_similarity[2]
               + 3 * instruction_similarity[1] * line_similarity[2],
             5 * line_similarity[2] * instruction_similarity[2]>>)

\* a mutant: the weighted sum of the two rounded fields
overall_from_rounded(line_similarity, instruction_similarity) ==
    round4(<<3 * round4(line_similarity) + 2 * round4(instruction_similarity),
             5 * Scale>>)

\* round(line_similarity * 0.6 + instruction_similarity * 0.4, 4)
overall(line_similarity, instruction_similarity) ==
    round4(<<3 * line_similarity[1] * instruction_similarity[2]
               + 2 * instruction_similarity[1] * line_similarity[2],
             5 * line_similarity[2] * instruction_similarity[2]>>)

Return(l, i, o) ==
    [kind |-> "return", exc |-> "none", line_similarity |-> l,
     instruction_similarity |-> i, overall_similarity |-> o]

Raise(e) ==
    [kind |-> "raise", exc |-> e, line_similarity |-> -1,
     instruction_similarity |-> -1, overall_similarity |-> -1]

\* the exception open() or readlines() raises on a file in state st
ReadError(st) ==
    CASE st = "missing" -> "FileNotFoundError"
      [] st = "denied" -> "PermissionError"
      [] st = "directory" -> "IsADirectoryError"
      [] st = "undecodable" -> "UnicodeDecodeError"
      [] OTHER -> "none"

\* lines 88-95: the record of the two ratios and their weighted sum
rounded(line_similarity, instruction_similarity) ==
    Return(round4(line_similarity), round4(instruction_similarity),
           overall(line_similarity, instruction_similarity))

\* lines 75-95: the three scores of two texts that were read
score(lines1, lines2) ==
    rounded(ratio(normalized_lines(lines1), normalized_lines(lines2)),
            instruction_ratio(extract_instructions(lines1),
                              extract_instructions(lines2)))

\* file1 is opened and read first, then file2; of the exceptions only
\* FileNotFoundError is caught
calculate_similarity(f1, f2) ==
    LET failed == IF f1.st # "ok" THEN f1.st ELSE f2.st
    IN  IF failed = "ok" THEN score(f1.lines, f2.lines)
        ELSE IF ReadError(failed) = "FileNotFoundError" THEN Return(0, 0, 0)
        ELSE Raise(ReadError(failed))

---------------------------------------------------------------------------
(* The scorer as a state machine: two files on disk, and calls of          *)
(* calculate_similarity on them in either order.                           *)

MaxLines == 2
MaxSymLines == 3
MaxRoundLines1 == 3
MaxRoundLines2 == 4

Texts(L, n) == UNION {[1..k -> L] : k \in 0..n}

Readable(lines) == [st |-> "ok", lines |-> lines]
Unreadable == {[st |-> s, lines |-> <<>>] : s \in {"missing", "denied", "directory", "undecodable"}}

NoCall == [x |-> "none", y |-> "none", r |-> Raise("none")]

File(x) ==
    CASE x = "file1" -> file1
      [] x = "file2" -> file2
      [] x = "edited" -> Readable(edited)
      [] OTHER -> Readable(<<>>)

BatchIdle ==
    /\ base_exists = TRUE
    /\ dirs = <<>>
    /\ sidecar = <<>>
    /\ update_json = FALSE
    /\ idx = 0
    /\ results = <<>>
    /\ log = <<>>
    /\ pc = "idle"

\* instructions, an instruction with an operand, a comment, a label, a directive
ScoreLines ==
    { <<"a", "\n">>, <<"b", " ", "c", "\n">>, <<"#", " ", "a", "\n">>,
      <<"x", ":", "\n">>, <<".", "a", "\n">> }

Init ==
    /\ file1 \in {Readable(t) : t \in Texts(ScoreLines, MaxLines)} \cup Unreadable
    /\ file2 \in {Readable(t) : t \in Texts(ScoreLines, MaxLines)} \cup Unreadable
    /\ edited = <<>>
    /\ edits = <<>>
    /\ out = NoCall
    /\ BatchIdle

\* similarity = calculate_similarity(x, y)
Call(x, y) ==
    /\ out' = [x |-> x, y |-> y, r |-> calculate_similarity(File(x), File(y))]
    /\ UNCHANGED <<file1, file2, edited, edits>>
    /\ UNCHANGED batchVars

CallScorer == \E x, y \in {"file1", "file2"} : Call(x, y)

Next == CallScorer

Spec == Init /\ [][Next]_vars

\* three different instructions
SymLines == { <<"a", "\n">>, <<"b", "\n">>, <<"c", "\n">> }

InitSym ==
    /\ file1 \in {Readable(t) : t \in Texts(SymLines, MaxSymLines)}
    /\ file2 \in {Readable(t) : t \in Texts(SymLines, MaxSymLines)}
    /\ edited = <<>>
    /\ edits = <<>>
    /\ out = NoCall
    /\ BatchIdle

SpecSym == InitSym /\ [][Next]_vars

\* a label and an instruction
RoundLines == { <<"x", ":", "\n">>, <<"a", "\n">> }

InitRound ==
    /\ file1 \in {Readable(t) : t \in Texts(RoundLines, MaxRoundLines1)}
    /\ file2 \in {Readable(t) : t \in Texts(RoundLines, MaxRoundLines2)}
    /\ edited = <<>>
    /\ edits = <<>>
    /\ out = NoCall
    /\ BatchIdle

SpecRound == InitRound /\ [][Next]_vars

---------------------------------------------------------------------------
(* Edits of a copy of file1's text that the scorer is to be blind to:      *)
(* trailing comments, leading and trailing whitespace, and (for the        *)
(* instruction sequence) label and directive lines.                        *)

MaxEditLines == 1
MaxEdits == 2

EditLines == { <<"a", "\n">>, <<" ", "b", " ", "c", "\n">>, <<"x", ":", "\n">> }
OtherTexts == { <<>>, << <<"b", "\n">> >>, << <<"a", "\n">>, <<"x", ":", "\n">> >> }
Comments == { <<"#", "c">>, <<" ", ";", " ", "#">> }
\* <<leading, trailing>> whitespace
Paddings == { << <<>>, <<" ">> >>, << <<"\t">>, <<>> >> }
\* a label, and a directive after whitespace and before a comment
LabelLines == { <<"y", ":", "\n">>, <<" ", ".", "a", " ", "b", "#", "\n">> }

\* the line without its line terminator, and the terminator
Body(line) ==
    IF line # <<>> /\ line[Len(line)] = "\n" THEN SubSeq(line, 1, Len(line) - 1)
    ELSE line
Terminator(line) ==
    IF line # <<>> /\ line[Len(line)] = "\n" THEN <<"\n">> ELSE <<>>

InsertAt(s, i, e) == SubSeq(s, 1, i - 1) \o <<e>> \o SubSeq(s, i, Len(s))
RemoveAt(s, i) == SubSeq(s, 1, i - 1) \o SubSeq(s, i + 1, Len(s))

InitEdit ==
    /\ file1 \in {Readable(t) : t \in Texts(EditLines, MaxEditLines)}
    /\ file2 \in {Readable(t) : t \in OtherTexts}
    /\ edited = file1.lines
    /\ edits = <<>>
    /\ out = NoCall
    /\ BatchIdle

Edit(text, kind) ==
    /\ Len(edits) < MaxEdits
    /\ edited' = text
    /\ edits' = Append(edits, kind)
    /\ out' = NoCall
    /\ UNCHANGED <<file1, file2>>
    /\ UNCHANGED batchVars

\* a comment is appended to line i, before its line terminator
AppendComment ==
    \E i \in 1..Len(edited), c \in Comments :
        Edit([edited EXCEPT ![i] = Body(@) \o c \o Terminator(@)], "comment")

\* the whitespace around line i is replaced
ChangeWhitespace ==
    \E i \in 1..Len(edited), w \in Paddings :
        Edit([edited EXCEPT ![i] = w[1] \o strip(@) \o w[2] \o Terminator(@)],
             "whitespace")

\* a label line or a directive line is inserted
InsertLabel ==
    \E i \in 1..(Len(edited) + 1), l \in LabelLines :
        Edit(InsertAt(edited, i, l), "label")

\* a label line or a directive line is removed
RemoveLabel ==
    \E i \in 1..Len(edited) :
        /\ LET normalized == normalize_assembly_line(edited[i])
           IN  normalized # <<>> /\ (LabelMatch(normalized) \/ normalized[1] = ".")
        /\ Edit(RemoveAt(edited, i), "label")

CallEdited == Call("edited", "file2") \/ Call("file2", "edited")

NextEdit ==
    \/ AppendComment
    \/ ChangeWhitespace
    \/ InsertLabel
    \/ RemoveLabel
    \/ CallEdited

SpecEdit == InitEdit /\ [][NextEdit]_vars

---------------------------------------------------------------------------
(* process_all_problems: the loop over the problem directories, and the    *)
(* samples.json sidecar of each.  A JSON document is kept as the record of *)
(* the parts the code looks at (top, samples, entry, correct, similarity)  *)
(* and of one field it does not look at (note).                            *)

MaxDirs == 2

NoSimilarity == <<>>
Similarity(r) == <<r.line_similarity, r.instruction_similarity, r.overall_similarity>>

Doc(top, note, samples, entry, correct, similarity) ==
    [top |-> top, note |-> note, samples |-> samples, entry |-> entry,
     correct |-> correct, similarity |-> similarity]

\* text that is no JSON document; also what a failed write leaves behind
Malformed == Doc("malformed", "absent", "absent", "absent", "absent", NoSimilarity)

JsonFile(fmt, writable, doc) ==
    [exists |-> TRUE, fmt |-> fmt, writable |-> writable, doc |-> doc]
NoFile == [exists |-> FALSE, fmt |-> "none", writable |-> FALSE, doc |-> Malformed]

\* samples.json as extract_assembly.py writes it, with samples["0"]
Written(note, correct, similarity) ==
    JsonFile("indent2", TRUE, Doc("object", note, "object", "object", correct, similarity))

Sidecars ==
    { NoFile,
      JsonFile("indent2", TRUE, Malformed),
      \* a number; an object without samples; samples without the key;
      \* samples["0"] a number
      JsonFile("compact", TRUE, Doc("number", "absent", "absent", "absent", "absent", NoSimilarity)),
      JsonFile("indent2", TRUE, Doc("object", "plain", "absent", "absent", "absent", NoSimilarity)),
      JsonFile("indent2", TRUE, Doc("object", "plain", "object", "absent", "absent", NoSimilarity)),
      JsonFile("indent2", TRUE, Doc("object", "plain", "object", "number", "absent", NoSimilarity)),
      Written("plain", "true", NoSimilarity),
      [Written("plain", "absent", <<1, 2, 3>>) EXCEPT !.fmt = "compact"],
      [Written("plain", "false", NoSimilarity) EXCEPT !.writable = FALSE],
      \* an unrelated field holding "\ud800", and one holding 1e400
      Written("surrogate", "true", NoSimilarity),
      Written("1e400", "false", NoSimilarity) }

TextA == << <<"a", "\n">>, <<"b", "\n">> >>
TextB == << <<"a", "\n">>, <<"x", ":", "\n">> >>

ProblemDir(gen, unopt, json) == [gen |-> gen, unopt |-> unopt, json |-> json]

ProblemDirs ==
    {ProblemDir(Readable(TextA), Readable(TextB), j) : j \in Sidecars}
    \cup { ProblemDir(Readable(TextA), Readable(TextA), Written("plain", "true", NoSimilarity)),
           ProblemDir([st |-> "missing", lines |-> <<>>], Readable(TextB),
                      Written("plain", "true", NoSimilarity)),
           ProblemDir(Readable(TextA), [st |-> "directory", lines |-> <<>>],
                      Written("plain", "true", NoSimilarity)) }

InitBatch ==
    /\ file1 = Readable(<<>>)
    /\ file2 = Readable(<<>>)
    /\ edited = <<>>
    /\ edits = <<>>
    /\ out = NoCall
    /\ base_exists \in BOOLEAN
    /\ dirs \in IF base_exists THEN Texts(ProblemDirs, MaxDirs) ELSE {<<>>}
    /\ sidecar = [i \in 1..Len(dirs) |-> dirs[i].json]
    /\ update_json \in BOOLEAN
    /\ idx = 0
    /\ results = <<>>
    /\ log = <<>>
    /\ pc = "start"

\* json.load: the text "1e400" reads as the float inf
json_load(doc) == IF doc.note = "1e400" THEN [doc EXCEPT !.note = "inf"] ELSE doc

\* json.dump(data, f, indent=2, ensure_ascii=False) into the file opened
\* with 'w': inf is written as Infinity; a lone surrogate cannot be encoded,
\* and the write stops after the file was truncated
json_dump(file, data) ==
    IF data.note = "surrogate" THEN [file EXCEPT !.fmt = "indent2", !.doc = Malformed]
    ELSE [file EXCEPT !.fmt = "indent2",
                      !.doc = IF data.note = "inf"
                              THEN [data EXCEPT !.note = "Infinity"] ELSE data]

\* data.get('samples', {}).get(sample_key, {}).get('correct', False)
correct_of(data) ==
    data.top = "object" /\ data.samples = "object" /\ data.entry = "object"
        /\ data.correct = "true"

\* the .get chain raises on a value that is no dict
get_raises(data) ==
    \/ data.top # "object"
    \/ data.samples = "object" /\ data.entry = "number"

\* 'samples' in data and sample_key in data['samples']
has_entry(data) ==
    data.top = "object" /\ data.samples = "object" /\ data.entry # "absent"

\* a mutant: the except branch passes in silence, as the one of line 172
update_sidecar_silent(file, similarity) ==
    [file |-> file, correct |-> FALSE, failed |-> FALSE]

\* lines 151-165: [file, correct, failed] of the update of one samples.json;
\* failed is the except branch with its "JSON processing failed" line
update_sidecar(file, similarity) ==
    LET data == json_load(file.doc)
        updated == [data EXCEPT !.entry = "object", !.similarity = similarity]
    IN  IF file.doc.top = "malformed" \/ data.top = "number"
        THEN [file |-> file, correct |-> FALSE, failed |-> TRUE]
        ELSE IF ~has_entry(data)
        THEN [file |-> IF file.writable THEN json_dump(file, data) ELSE file,
              correct |-> FALSE,
              failed |-> ~file.writable \/ data.note = "surrogate"]
        ELSE IF data.entry = "number"
        THEN [file |-> file, correct |-> FALSE, failed |-> TRUE]
        ELSE [file |-> IF file.writable THEN json_dump(file, updated) ELSE file,
              correct |-> correct_of(updated),
              failed |-> ~file.writable \/ data.note = "surrogate"]

\* lines 168-173: correct, read without updating
read_correct(file) ==
    LET data == json_load(file.doc)
    IN  IF file.doc.top = "malformed" \/ get_raises(data) THEN FALSE
        ELSE correct_of(data)

Logged(i, msg) == [problem_id |-> i, msg |-> msg]

dir == dirs[idx]
InLoop == pc = "loop" /\ idx <= Len(dirs)
BothExist(d) == d.gen.st # "missing" /\ d.unopt.st # "missing"
similarity_of(d) == calculate_similarity(d.gen, d.unopt)

Scored(correct, failed) ==
    /\ results' = Append(results,
                         [problem_id |-> idx,
                          similarity |-> Similarity(similarity_of(dir)),
                          correct |-> correct])
    /\ log' = log \o (IF failed THEN <<Logged(idx, "JSON processing failed")>> ELSE <<>>)
                  \o <<Logged(idx, "Similarity")>>
    /\ idx' = idx + 1
    /\ UNCHANGED <<base_exists, dirs, update_json, pc>>
    /\ UNCHANGED scorerVars

\* lines 118-133
Start ==
    /\ pc = "start"
    /\ IF ~base_exists
       THEN pc' = "returned" /\ log' = <<Logged(0, "Error: Directory does not exist")>>
            /\ idx' = idx
       ELSE IF dirs = <<>>
       THEN pc' = "returned" /\ log' = <<Logged(0, "Warning: No directories")>>
            /\ idx' = idx
       ELSE pc' = "loop" /\ log' = <<Logged(0, "Found")>> /\ idx' = 1
    /\ UNCHANGED <<base_exists, dirs, sidecar, update_json, results>>
    /\ UNCHANGED scorerVars

\* lines 141-143
SkipProblem ==
    /\ InLoop /\ ~BothExist(dir)
    /\ log' = Append(log, Logged(idx, "Skipping"))
    /\ idx' = idx + 1
    /\ UNCHANGED <<base_exists, dirs, sidecar, update_json, results, pc>>
    /\ UNCHANGED scorerVars

\* line 146, when calculate_similarity raises: nothing catches it
ScorerRaises ==
    /\ InLoop /\ BothExist(dir) /\ similarity_of(dir).kind = "raise"
    /\ pc' = "raised"
    /\ UNCHANGED <<base_exists, dirs, sidecar, update_json, idx, results, log>>
    /\ UNCHANGED scorerVars

\* lines 150-165
UpdateSidecar ==
    /\ InLoop /\ BothExist(dir) /\ similarity_of(dir).kind = "return"
    /\ sidecar[idx].exists /\ update_json
    /\ LET u == update_sidecar(sidecar[idx], Similarity(similarity_of(dir)))
       IN  /\ sidecar' = [sidecar EXCEPT ![idx] = u.file]
           /\ Scored(u.correct, u.failed)

\* lines 166-173
ReadSidecar ==
    /\ InLoop /\ BothExist(dir) /\ similarity_of(dir).kind = "return"
    /\ sidecar[idx].exists /\ ~update_json
    /\ UNCHANGED sidecar
    /\ Scored(read_correct(sidecar[idx]), FALSE)

\* neither branch: there is no samples.json
NoSidecar ==
    /\ InLoop /\ BothExist(dir) /\ similarity_of(dir).kind = "return"
    /\ ~sidecar[idx].exists
    /\ UNCHANGED sidecar
    /\ Scored(FALSE, FALSE)

\* line 183
ReturnResults ==
    /\ pc = "loop" /\ idx > Len(dirs)
    /\ pc' = "returned"
    /\ UNCHANGED <<base_exists, dirs, sidecar, update_json, idx, results, log>>
    /\ UNCHANGED scorerVars

NextBatch ==
    \/ Start
    \/ SkipProblem
    \/ ScorerRaises
    \/ UpdateSidecar
    \/ ReadSidecar
    \/ NoSidecar
    \/ ReturnResults

SpecBatch == InitBatch /\ [][NextBatch]_vars

Called == out.x # "none"
Returned == Called /\ out.r.kind = "return"
BothRead == Called /\ File(out.x).st = "ok" /\ File(out.y).st = "ok"
One == Return(Scale, Scale, Scale)

---------------------------------------------------------------------------
(* C1 *)

\* C1: when either file cannot be read, whatever the failure,
\* calculate_similarity raises nothing and returns 0.0 in all three fields.
C1_UnreadableGivesZero ==
    (Called /\ ~BothRead) => out.r = Return(0, 0, 0)

---------------------------------------------------------------------------
(* C2 *)

\* C2: a readable file with a non-empty text scored against itself gives
\* 1.0 in all three fields (comment-only and label-only files included).
C2_Identity ==
    (BothRead /\ out.x = out.y /\ File(out.x).lines # <<>>) => out.r = One

\* C2 as the code has it: scored against itself, a readable file with at
\* least one instruction gives 1.0 in all three fields; a file without any
\* instruction gives line_similarity 1.0, instruction_similarity 0.0 and
\* overall_similarity 0.6.
C2_IdentityWithInstructions ==
    (BothRead /\ out.x = out.y) =>
        IF extract_instructions(File(out.x).lines) # <<>>
        THEN out.r = One
        ELSE out.r = Return(Scale, 0, 6000)

C2_Witness ==
    /\ BothRead /\ out.x = out.y
    /\ Len(extract_instructions(File(out.x).lines)) = 2
    /\ out.r = One

---------------------------------------------------------------------------
(* C3 *)

\* the two results in the two orders of the arguments
Swapped == calculate_similarity(File(out.y), File(out.x))

\* C3: calculate_similarity(A, B) and calculate_similarity(B, A) are equal
\* in all three fields, for all readable texts A and B.
C3_Symmetry ==
    BothRead => out.r = Swapped

\* C3 as the code has it, for texts shorter than the autojunk threshold:
\* the two orders agree on which fields are 0.0, and they agree in all
\* three fields when one of the texts has at most one normalized line.
C3_SymmetryShort ==
    (BothRead /\ Len(File(out.x).lines) < AutoJunkMin
              /\ Len(File(out.y).lines) < AutoJunkMin) =>
        /\ (out.r.line_similarity = 0) = (Swapped.line_similarity = 0)
        /\ (out.r.instruction_similarity = 0)
               = (Swapped.instruction_similarity = 0)
        /\ (out.r.overall_similarity = 0) = (Swapped.overall_similarity = 0)
        /\ (\/ Len(normalized_lines(File(out.x).lines)) <= 1
            \/ Len(normalized_lines(File(out.y).lines)) <= 1) => out.r = Swapped

C3_Witness ==
    /\ BothRead /\ out.x # out.y
    /\ Len(normalized_lines(File(out.x).lines)) = 1
    /\ Len(normalized_lines(File(out.y).lines)) = 3
    /\ out.r.line_similarity = 5000
    /\ out.r = Swapped

---------------------------------------------------------------------------
(* C6 *)

\* C6: every field of every record calculate_similarity returns, for
\* readable and unreadable inputs, lies between 0.0 and 1.0.
C6_Range ==
    Returned =>
        /\ out.r.line_similarity \in 0..Scale
        /\ out.r.instruction_similarity \in 0..Scale
        /\ out.r.overall_similarity \in 0..Scale

C6_Witness ==
    /\ Returned /\ BothRead
    /\ out.r.line_similarity \in 1..(Scale - 1)
    /\ out.r.instruction_similarity \in 1..(Scale - 1)
    /\ out.r.overall_similarity \in 1..(Scale - 1)

---------------------------------------------------------------------------
(* C7 *)

\* the two unrounded ratios of the last call
LineRatio ==
    ratio(normalized_lines(File(out.x).lines), normalized_lines(File(out.y).lines))

InstRatio ==
    LET i1 == extract_instructions(File(out.x).lines)
        i2 == extract_instructions(File(out.y).lines)
    IN  IF i1 = <<>> /\ i2 = <<>> THEN <<0, 1>> ELSE ratio(i1, i2)

\* n / d rounded to ten-thousandths, for a fraction that is not a tie
Nearest(n, d) == CHOOSE v \in 0..(2 * Scale) :
                    2 * (v * d - Scale * n) \in (-d)..d

\* C7: overall_similarity is the 4-decimal rounding of
\* 0.6 * lineRatio + 0.4 * instRatio taken on the unrounded ratios.
C7_Weighting ==
    BothRead =>
        out.r.overall_similarity =
            Nearest(6 * LineRatio[1] * InstRatio[2] + 4 * InstRatio[1] * LineRatio[2],
                    10 * LineRatio[2] * InstRatio[2])

\* a call where the weighted sum of the rounded fields rounds differently
C7_Witness ==
    /\ BothRead
    /\ out.r.overall_similarity #
          Nearest(6 * out.r.line_similarity + 4 * out.r.instruction_similarity,
                  10 * Scale)

---------------------------------------------------------------------------
(* C10 *)

\* C10: two readable inputs without any normalized line give
\* line_similarity 1.0, instruction_similarity 0.0 and overall 0.6; and
\* instruction_similarity is 0.0 whenever neither input has an instruction.
C10_EmptyAsymmetry ==
    BothRead =>
        /\ (/\ normalized_lines(File(out.x).lines) = <<>>
            /\ normalized_lines(File(out.y).lines) = <<>>)
               => out.r = Return(Scale, 0, 6000)
        /\ (/\ extract_instructions(File(out.x).lines) = <<>>
            /\ extract_instructions(File(out.y).lines) = <<>>)
               => out.r.instruction_similarity = 0

C10_Witness ==
    /\ BothRead /\ out.x # out.y
    /\ File(out.x).lines # <<>> /\ File(out.y).lines = <<>>
    /\ normalized_lines(File(out.x).lines) = <<>>
    /\ out.r = Return(Scale, 0, 6000)

---------------------------------------------------------------------------
(* C4, C5 *)

\* the file an argument of the last call stood for before the edits
Original(x) == IF x = "edited" THEN file1 ELSE File(x)
Unedited == calculate_similarity(Original(out.x), Original(out.y))

\* C4: appending trailing '#' or ';' comments to lines of A, and changing
\* the leading and trailing whitespace of lines of A, changes none of the
\* three scores of A against B.
C4_CommentWhitespaceInvariance ==
    (Called /\ Range(edits) \subseteq {"comment", "whitespace"}) => out.r = Unedited

C4_Witness ==
    /\ Called /\ Range(edits) = {"comment", "whitespace"}
    /\ Len(edited) = 1 /\ Len(edited[1]) > Len(file1.lines[1]) + 2
    /\ out.r.line_similarity \in 1..(Scale - 1)
    /\ out.r = Unedited

\* C5: inserting and removing label lines and directive lines leaves
\* extract_instructions, and with it instruction_similarity, unchanged
\* (line_similarity may change).
C5_LabelInvariance ==
    (Range(edits) = {"label"}) =>
        /\ extract_instructions(edited) = extract_instructions(file1.lines)
        /\ Called => out.r.instruction_similarity = Unedited.instruction_similarity

\* labels were inserted and the line similarity changed with them
C5_Witness ==
    /\ Called /\ Range(edits) = {"label"}
    /\ Len(edited) > Len(file1.lines)
    /\ out.r.instruction_similarity = Scale
    /\ out.r.instruction_similarity = Unedited.instruction_similarity
    /\ out.r.line_similarity < Unedited.line_similarity

---------------------------------------------------------------------------
(* C8, C9 *)

JsonFailed(i) == Logged(i, "JSON processing failed") \in Range(log)
InResults(i) == \E k \in 1..Len(results) : results[k].problem_id = i

\* C8: after the run every samples.json has the content it had before,
\* except possibly samples[sample_key].similarity, which is set to the
\* computed result only with update_json and an existing samples[sample_key];
\* without update_json no samples.json changes at all.
C8_SidecarFrame ==
    \A i \in 1..Len(dirs) :
        LET before == dirs[i].json
            after == sidecar[i]
        IN  /\ after.exists = before.exists
            /\ [after.doc EXCEPT !.similarity = NoSimilarity]
                   = [before.doc EXCEPT !.similarity = NoSimilarity]
            /\ after.doc.similarity # before.doc.similarity =>
                   /\ update_json /\ has_entry(before.doc)
                   /\ after.doc.similarity = Similarity(similarity_of(dirs[i]))
            /\ ~update_json => after = before

===========================================================================
